---- MODULE Spec2Model ----
(***************************************************************************)
(* Hotel recommendation backend (FastAPI routes + HotelRecommender).       *)
(*                                                                         *)
(* Number representation.  Python floats are modelled in fixed point:      *)
(*   - ratings (CSV rows, matrix cells, query values) in tenths            *)
(*     (4.5 is 45);                                                        *)
(*   - predicted_rating and the popularity average in hundredths, which    *)
(*     is what round(x, 2) yields (3.95 is 395);                           *)
(*   - cosine similarities in units of 1/SimScale;                         *)
(*   - natural logarithms in thousandths.                                  *)
(* Hotel ids of a query are typed keys <<"int", h>> or <<"str", h>>:       *)
(* Python never equates 1 and "1", and the matrix columns read from the    *)
(* CSV are integers.                                                       *)
(***************************************************************************)
EXTENDS Integers, Sequences, FiniteSets, TLC

VARIABLES files, ratings_csv, main_recommender, recommender, phase, req, resp,
          user1_ratings, user2_ratings, sim_call

(* the arguments and the outcome of a call into models/similarity.py *)
simvars == <<user1_ratings, user2_ratings, sim_call>>

vars == <<files, ratings_csv, main_recommender, recommender, phase, req, resp,
          user1_ratings, user2_ratings, sim_call>>

---------------------------------------------------------------------------
(* Bounds of the model *)

MaxQueryLen == 2
MaxN == 3
SimScale == 10000
MaxSimHotels == 3
MaxK == 2
MaxLoadCalls == 3

(* Program constants *)

DefaultK == 5
SimpleN == 5
(* len(user_ratings) < 2 is the cold start; a threshold of 1 would leave   *)
(* only the empty query there                                              *)
ColdStartMinOne == 2 - 1

ColdStartMin == 2
PriceTolerance == 100
JaccardThreshold == 35

---------------------------------------------------------------------------
(* Generic helpers: Python None, sums, sorted sequences, permutations *)

None == <<>>

Some(x) == <<x>>

Min(a, b) == IF a < b THEN a ELSE b

Max(a, b) == IF a > b THEN a ELSE b

Abs(a) == IF a < 0 THEN 0 - a ELSE a

SeqToSet(s) == {s[i] : i \in 1..Len(s)}

(* the element of a one-element set: Only({e(x) : x \in {v}}) computes v   *)
(* once and names it x in e                                                *)
Only(S) == CHOOSE x \in S : TRUE

RECURSIVE SumF(_, _)
SumF(f, S) ==
    IF S = {} THEN 0
    ELSE Only({f[x] + SumF(f, S \ {x}) : x \in {CHOOSE y \in S : TRUE}})

(* f itself, every value computed once *)
Tabulate(f) == f @@ <<>>

RECURSIVE SortedSeq(_)
SortedSeq(S) ==
    IF S = {} THEN <<>>
    ELSE Only({<<m>> \o SortedSeq(S \ {m}) :
                  m \in {CHOOSE y \in S : \A z \in S : y <= z}})

RECURSIVE Perms(_)
Perms(S) ==
    IF S = {} THEN {<<>>}
    ELSE UNION {{<<x>> \o p : p \in Perms(S \ {x})} : x \in S}

RECURSIVE ISqrtSearch(_, _, _)
ISqrtSearch(n, lo, hi) ==
    IF lo >= hi THEN lo
    ELSE Only({IF mid * mid <= n THEN ISqrtSearch(n, mid, hi)
               ELSE ISqrtSearch(n, lo, mid - 1) :
                  mid \in {(lo + hi + 1) \div 2}})

ISqrt(n) == ISqrtSearch(n, 0, Min(n, 46340))

(* round(x, 2) of the quotient num/den, the result counted in hundredths   *)
(* when num/den is counted in tenths                                       *)
Round2(num, den) == (20 * num + den) \div (2 * den)

(* s[:n] of Python, negative n included *)
SliceTo(s, n) ==
    IF n >= 0 THEN SubSeq(s, 1, Min(n, Len(s)))
    ELSE SubSeq(s, 1, Max(0, Len(s) + n))

(* ln(x) in thousandths, for the counts the tables of the model produce *)
LnTable == <<0, 693, 1099, 1386, 1609, 1792, 1946, 2079, 2197, 2303, 2398, 2485>>

(* beyond the table, ln(x div 2) + ln(2): a lower estimate of ln(x), below *)
(* it by less than ln(1 + 1 / (x - 1)) at each halving                     *)
RECURSIVE LnMilli(_)
LnMilli(x) == IF x <= Len(LnTable) THEN LnTable[x] ELSE LnMilli(x \div 2) + LnTable[2]

---------------------------------------------------------------------------
(* The CSV files on disk: hotels.csv is a fixed catalogue, ratings.csv is  *)
(* one of a few tables chosen in Init                                       *)

Hotel(id, categorie, localisation, prix) ==
    [hotel_id |-> id, categorie |-> categorie, localisation |-> localisation,
     prix |-> prix]

(* hotels.csv: hotel_id is the row's position, as the generator numbers them *)
HotelsCsv ==
    << Hotel(1, "Riad", "Medina", 150),
       Hotel(2, "Luxe", "Hivernage", 600),
       Hotel(3, "Riad", "Gueliz", 400),
       Hotel(4, "Budget", "Medina", 500) >>

HotelIds == DOMAIN HotelsCsv

Row(u, h, r) == [user_id |-> u, hotel_id |-> h, rating |-> r]

(* U1 {H1:5, H2:5}, U2 {H1:5, H2:4, H3:3}, U3 {H3:5, H4:5} *)
TableScenario ==
    << Row(1, 1, 50), Row(1, 2, 50),
       Row(2, 1, 50), Row(2, 2, 40), Row(2, 3, 30),
       Row(3, 3, 50), Row(3, 4, 50) >>

(* two rows for (U1, H3), and H3 both predictable and the most popular *)
TableDup ==
    << Row(1, 1, 50), Row(1, 2, 50), Row(1, 3, 50), Row(1, 3, 40),
       Row(2, 1, 50), Row(2, 2, 40), Row(2, 3, 30),
       Row(3, 3, 50), Row(3, 4, 20) >>

(* H3 and H4 get equal predictions from U1 and U2 *)
TableTies ==
    << Row(1, 1, 50), Row(1, 2, 50), Row(1, 3, 40), Row(1, 4, 40),
       Row(2, 1, 50), Row(2, 2, 50), Row(2, 3, 40), Row(2, 4, 40),
       Row(3, 1, 10), Row(3, 4, 50) >>

(* seven users, so that k = 5 neighbours are a proper subset of the users *)
TableMany ==
    << Row(1, 1, 50), Row(1, 2, 50), Row(1, 3, 30), Row(1, 4, 50),
       Row(2, 1, 50), Row(2, 2, 50), Row(2, 3, 30), Row(2, 4, 50),
       Row(3, 1, 40), Row(3, 2, 50), Row(3, 4, 45),
       Row(4, 1, 20), Row(4, 3, 50),
       Row(5, 2, 30), Row(5, 4, 10),
       Row(6, 3, 45),
       Row(7, 1, 50), Row(7, 2, 50), Row(7, 3, 30), Row(7, 4, 50) >>

(* a single user: the KNN model is asked for min(k, 1 - 1) = 0 neighbours *)
TableOneUser ==
    << Row(1, 1, 50), Row(1, 2, 40) >>

(* ratings.csv with its header line and no row *)
TableEmpty == <<>>

RatingsTables == {TableScenario, TableDup, TableTies, TableMany, TableOneUser}

AllFiles == {"hotels", "users", "ratings"}

FileStates == {AllFiles, {"hotels", "users"}, {}}

---------------------------------------------------------------------------
(* HotelRecommender: construction, loading, matrix, KNN model *)

NewRecommender ==
    [k |-> DefaultK,
     hotels_df |-> None,
     users_df |-> None,
     ratings_df |-> None,
     user_item_matrix |-> None,
     model |-> None,
     data_loaded |-> FALSE,
     load_calls |-> 0,
     pivots |-> 0]

Returned(self) == [self |-> self, raised |-> FALSE]

Raised(self) == [self |-> self, raised |-> TRUE]

RowsOf(rows, u, h) ==
    {i \in 1..Len(rows) : rows[i].user_id = u /\ rows[i].hotel_id = h}

RowsOfHotel(rows, h) == {i \in 1..Len(rows) : rows[i].hotel_id = h}

RatedHotels(rows) == {rows[i].hotel_id : i \in 1..Len(rows)}

RatingUsers(rows) == {rows[i].user_id : i \in 1..Len(rows)}

SumRatings(rows, I) == SumF([i \in I |-> rows[i].rating], I)

(* mean of the ratings of the rows I, in tenths *)
MeanRating(rows, I) == SumRatings(rows, I) \div Cardinality(I)

(* hotels_df['avg_rating'] = hotel_id.map(groupby mean).fillna(0) *)
WithAvgRating(hotels, rows) ==
    [h \in DOMAIN hotels |->
        [hotel_id |-> hotels[h].hotel_id,
         categorie |-> hotels[h].categorie,
         localisation |-> hotels[h].localisation,
         prix |-> hotels[h].prix,
         avg_rating |-> IF RowsOfHotel(rows, h) = {} THEN 0
                        ELSE (10 * SumRatings(rows, RowsOfHotel(rows, h)))
                                 \div Cardinality(RowsOfHotel(rows, h))]]

(* a pivot table that adds up the rows of a pair (aggfunc='sum') *)
PivotTableSum(rows) ==
    [index |-> SortedSeq(RatingUsers(rows)),
     columns |-> SortedSeq(RatedHotels(rows)),
     values |-> Tabulate([u \in RatingUsers(rows), h \in RatedHotels(rows) |->
                    IF RowsOf(rows, u, h) = {} THEN 0
                    ELSE SumRatings(rows, RowsOf(rows, u, h))])]

(* ratings_df.pivot_table(index=user_id, columns=hotel_id, values=rating,  *)
(* fill_value=0): the default aggregation is the mean                      *)
PivotTable(rows) ==
    [index |-> SortedSeq(RatingUsers(rows)),
     columns |-> SortedSeq(RatedHotels(rows)),
     values |-> Tabulate([u \in RatingUsers(rows), h \in RatedHotels(rows) |->
                    IF RowsOf(rows, u, h) = {} THEN 0
                    ELSE MeanRating(rows, RowsOf(rows, u, h))])]

(* pivots counts the constructions of the matrix *)
Pivot(self) ==
    [self EXCEPT !.user_item_matrix = Some(PivotTable(self.ratings_df[1])),
                 !.pivots = @ + 1]

(* load_calls counts the entries into load_data *)
Entered(self) == [self EXCEPT !.load_calls = @ + 1]

RECURSIVE load_data(_)
RECURSIVE prepare_user_item_matrix(_)

load_data(self) ==
    IF "hotels" \notin files THEN Raised(Entered(self))
    ELSE LET s1 == [Entered(self) EXCEPT !.hotels_df = Some(HotelsCsv)]
         IN  IF "users" \notin files THEN Raised(s1)
             ELSE LET s2 == [s1 EXCEPT !.users_df = Some(RatingUsers(ratings_csv))]
                  IN  IF "ratings" \notin files THEN Raised(s2)
                      ELSE prepare_user_item_matrix(
                               [s2 EXCEPT !.ratings_df = Some(ratings_csv),
                                          !.hotels_df = Some(WithAvgRating(HotelsCsv, ratings_csv)),
                                          !.data_loaded = TRUE])

prepare_user_item_matrix(self) ==
    IF ~self.data_loaded
    THEN Only({IF r.raised THEN r ELSE Returned(Pivot(r.self)) :
                  r \in {load_data(self)}})
    ELSE Returned(Pivot(self))

(* NearestNeighbors(n_neighbors=min(k, len(matrix) - 1)) is stored in      *)
(* self.model before fit() runs; fit() rejects n_neighbors <= 0            *)
train_model(self) ==
    Only({
        IF pre.raised THEN pre
        ELSE LET nn == Min(pre.self.k, Len(pre.self.user_item_matrix[1].index) - 1)
             IN  IF nn <= 0
                 THEN Raised([pre.self EXCEPT !.model =
                                 Some([n_neighbors |-> nn, fitted |-> FALSE])])
                 ELSE Returned([pre.self EXCEPT !.model =
                                 Some([n_neighbors |-> nn, fitted |-> TRUE])])
        : pre \in {IF self.user_item_matrix = None
                   THEN prepare_user_item_matrix(self)
                   ELSE Returned(self)}})

---------------------------------------------------------------------------
(* Query ratings: a function from typed hotel keys to ratings in tenths *)

IntKey(h) == <<"int", h>>

StrKey(h) == <<"str", h>>

KeyHotel(key) == key[2]

(* hotel_id in self.user_item_matrix.columns *)
InColumns(key, matrix) == key[1] = "int" /\ key[2] \in SeqToSet(matrix.columns)

(* user_vector: zeros, then the rating of every query key that is a column *)
(* a query vector that is left all zero as soon as the query holds a key   *)
(* that is not a column                                                    *)
UserVectorZeroOnUnknown(user_ratings, matrix) ==
    [h \in SeqToSet(matrix.columns) |->
        IF \E key \in DOMAIN user_ratings : ~InColumns(key, matrix) THEN 0
        ELSE IF IntKey(h) \in DOMAIN user_ratings THEN user_ratings[IntKey(h)] ELSE 0]

UserVector(user_ratings, matrix) ==
    [h \in SeqToSet(matrix.columns) |->
        IF IntKey(h) \in DOMAIN user_ratings THEN user_ratings[IntKey(h)] ELSE 0]

(* 1 - cosine distance between the query vector and the row of user u *)
CosineSimilarity(vec, matrix, u) ==
    LET H == SeqToSet(matrix.columns)
        dot == SumF([h \in H |-> vec[h] * matrix.values[u, h]], H)
        nq == SumF([h \in H |-> vec[h] * vec[h]], H)
        nr == SumF([h \in H |-> matrix.values[u, h] * matrix.values[u, h]], H)
    IN  IF nq = 0 \/ nr = 0 THEN 0
        ELSE (SimScale * dot) \div ISqrt(nq * nr)

(* model.kneighbors: the n_neighbors rows nearest to the vector; rows at   *)
(* equal distance are kept or dropped in an order the library leaves open  *)
KNeighbors(matrix, sims, nn) ==
    LET U == SeqToSet(matrix.index)
        t == CHOOSE v \in {sims[u] : u \in U} :
                 /\ Cardinality({u \in U : sims[u] > v}) < nn
                 /\ Cardinality({u \in U : sims[u] >= v}) >= nn
        nearer == {u \in U : sims[u] > t}
        tied == {u \in U : sims[u] = t}
    IN  {nearer \cup T :
            T \in {X \in SUBSET tied : Cardinality(X) = nn - Cardinality(nearer)}}

(* outcome: the instance, whether an exception left the method, and the    *)
(* possible neighbour sets, each as a map user_id -> similarity            *)
find_similar_users(self, user_ratings) ==
    Only({
        IF pre.raised \/ ~pre.self.model[1].fitted
        THEN [self |-> pre.self, raised |-> TRUE, similar_users |-> {}]
        ELSE Only({
                 [self |-> pre.self, raised |-> FALSE,
                  similar_users |->
                     {Tabulate([u \in N |-> sims[u]]) :
                         N \in KNeighbors(pre.self.user_item_matrix[1], sims,
                                          pre.self.model[1].n_neighbors)}]
                 : sims \in {Tabulate(
                       [u \in SeqToSet(pre.self.user_item_matrix[1].index) |->
                           CosineSimilarity(
                               UserVector(user_ratings, pre.self.user_item_matrix[1]),
                               pre.self.user_item_matrix[1], u)])}})
        : pre \in {IF self.model = None THEN train_model(self) ELSE Returned(self)}})

---------------------------------------------------------------------------
(* Popularity fallback, explanations, formatting *)

Explanation(rule, text, stars) == [rule |-> rule, text |-> text, stars |-> stars]

Recommendation(hotel, predicted, explanation) ==
    [hotel_id |-> hotel.hotel_id,
     predicted_rating |-> predicted,
     categorie |-> hotel.categorie,
     localisation |-> hotel.localisation,
     prix |-> hotel.prix,
     explanation |-> explanation]

(* a score that is the average alone *)
PopularityScoreNoLog(avg_rating, count) == avg_rating * 1000

(* hotel_stats['avg_rating'] * np.log(hotel_stats['count'] + 1) *)
PopularityScore(avg_rating, count) == avg_rating * LnMilli(count + 1)

(* groupby('hotel_id').agg(count, mean).round(2), then                     *)
(* popularity_score = avg_rating * log(count + 1)                          *)
HotelStats(rows) ==
    Tabulate(
    [h \in RatedHotels(rows) |->
        LET I == RowsOfHotel(rows, h)
            avg == Round2(SumRatings(rows, I), Cardinality(I))
        IN  [count |-> Cardinality(I),
             avg_rating |-> avg,
             popularity_score |-> PopularityScore(avg, Cardinality(I))]])

(* nlargest: descending score, equal scores in index (ascending id) order *)
RECURSIVE NLargestOrder(_, _)
NLargestOrder(stats, H) ==
    IF H = {} THEN <<>>
    ELSE Only({<<top>> \o NLargestOrder(stats, H \ {top}) :
                  top \in {CHOOSE h \in H : \A g \in H :
                        \/ stats[h].popularity_score > stats[g].popularity_score
                        \/ /\ stats[h].popularity_score = stats[g].popularity_score
                           /\ h <= g}})

NLargest(stats, n) ==
    IF n <= 0 THEN <<>>
    ELSE SubSeq(NLargestOrder(stats, DOMAIN stats), 1,
                Min(n, Cardinality(DOMAIN stats)))

(* outcome [raised, body]; it raises when ratings_df is None, when a rated *)
(* hotel has no row in hotels_df (.iloc[0] of an empty selection), and     *)
(* when ratings_df has no row: the columns read from a file without rows,  *)
(* and so avg_rating and popularity_score, have dtype object, on which     *)
(* nlargest raises TypeError                                               *)
get_popular_recommendations(self, n_recommendations) ==
    IF self.ratings_df = None THEN [raised |-> TRUE, body |-> <<>>]
    ELSE IF self.ratings_df[1] = <<>> THEN [raised |-> TRUE, body |-> <<>>]
    ELSE Only({Only({
             LET hotels == self.hotels_df[1]
             IN  IF \E i \in 1..Len(top_popular) : top_popular[i] \notin DOMAIN hotels
                 THEN [raised |-> TRUE, body |-> <<>>]
                 ELSE [raised |-> FALSE,
                       body |-> [i \in 1..Len(top_popular) |->
                           Recommendation(hotels[top_popular[i]],
                               stats[top_popular[i]].avg_rating,
                               Explanation("populaire", "",
                                   stats[top_popular[i]].avg_rating))]]
             : top_popular \in {NLargest(stats, n_recommendations)}})
             : stats \in {HotelStats(self.ratings_df[1])}})

(* hotels of hotels_df whose id is one of the given query keys (isin) *)
HotelsIn(hotels, keys) == {h \in DOMAIN hotels : IntKey(h) \in keys}

(* _generate_explanation with the location rule tried before the category  *)
(* rule                                                                    *)
generate_explanation_location_first(self, user_ratings, hotel) ==
    LET hotels == self.hotels_df[1]
        user_hotels == HotelsIn(hotels, DOMAIN user_ratings)
        high_rated == {key \in DOMAIN user_ratings : user_ratings[key] >= 40}
        high_rated_hotels == HotelsIn(hotels, high_rated)
        price_sum == SumF([h \in high_rated_hotels |-> hotels[h].prix],
                          high_rated_hotels)
        cnt == Cardinality(high_rated_hotels)
    IN  IF user_hotels = {}
        THEN Explanation("populaire_gouts_similaires", "", 0)
        ELSE IF high_rated # {} /\ high_rated_hotels # {}
        THEN IF \E h \in high_rated_hotels :
                   hotels[h].localisation = hotel.localisation
             THEN Explanation("localisation", hotel.localisation, 0)
             ELSE IF \E h \in high_rated_hotels : hotels[h].categorie = hotel.categorie
             THEN Explanation("categorie", hotel.categorie, 0)
             ELSE IF Abs(hotel.prix * cnt - price_sum) < PriceTolerance * cnt
             THEN Explanation("gamme_de_prix", "", 0)
             ELSE Explanation("gouts_similaires", "", 0)
        ELSE Explanation("gouts_similaires", "", 0)

generate_explanation(self, user_ratings, hotel) ==
    LET hotels == self.hotels_df[1]
        user_hotels == HotelsIn(hotels, DOMAIN user_ratings)
        high_rated == {key \in DOMAIN user_ratings : user_ratings[key] >= 40}
        high_rated_hotels == HotelsIn(hotels, high_rated)
        price_sum == SumF([h \in high_rated_hotels |-> hotels[h].prix],
                          high_rated_hotels)
        cnt == Cardinality(high_rated_hotels)
    IN  IF user_hotels = {}
        THEN Explanation("populaire_gouts_similaires", "", 0)
        ELSE IF high_rated # {} /\ high_rated_hotels # {}
        THEN IF \E h \in high_rated_hotels : hotels[h].categorie = hotel.categorie
             THEN Explanation("categorie", hotel.categorie, 0)
             ELSE IF \E h \in high_rated_hotels :
                        hotels[h].localisation = hotel.localisation
             THEN Explanation("localisation", hotel.localisation, 0)
             ELSE IF Abs(hotel.prix * cnt - price_sum) < PriceTolerance * cnt
             THEN Explanation("gamme_de_prix", "", 0)
             ELSE Explanation("gouts_similaires", "", 0)
        ELSE Explanation("gouts_similaires", "", 0)

(* predictions: a sequence of <<hotel_id, predicted_rating>> in the        *)
(* insertion order of the dict; hotels absent from hotels_df are skipped   *)
RECURSIVE format_recommendations(_, _, _)
format_recommendations(self, predictions, user_ratings) ==
    IF predictions = <<>> THEN <<>>
    ELSE LET hotels == self.hotels_df[1]
             p == Head(predictions)
             rest == format_recommendations(self, Tail(predictions), user_ratings)
         IN  IF p[1] \in DOMAIN hotels
             THEN <<Recommendation(hotels[p[1]], p[2],
                        generate_explanation(self, user_ratings, hotels[p[1]]))>>
                  \o rest
             ELSE rest

---------------------------------------------------------------------------
(* Prediction and recommendation *)

(* every column is a candidate, rated in the query or not *)
CandidatesAllColumns(user_ratings, matrix) == SeqToSet(matrix.columns)

(* set(columns) - set(user_ratings.keys()) *)
Candidates(user_ratings, matrix) ==
    {h \in SeqToSet(matrix.columns) : IntKey(h) \notin DOMAIN user_ratings}

(* a weighted_sum that adds the ratings without their similarity weights *)
WeightedSumOfRatings(similar_users, matrix, h) ==
    SumF([u \in DOMAIN similar_users |->
             IF matrix.values[u, h] > 0 THEN matrix.values[u, h] * SimScale ELSE 0],
         DOMAIN similar_users)

(* weighted_sum and similarity_sum of one hotel: only neighbours whose     *)
(* cell is > 0 contribute                                                  *)
WeightedSum(similar_users, matrix, h) ==
    SumF([u \in DOMAIN similar_users |->
             IF matrix.values[u, h] > 0
             THEN matrix.values[u, h] * similar_users[u] ELSE 0],
         DOMAIN similar_users)

(* the same sum taken over every selected neighbour, whether or not it    *)
(* has rated h                                                            *)
SimilaritySumAllNeighbours(similar_users, matrix, h) ==
    SumF([u \in DOMAIN similar_users |-> similar_users[u]], DOMAIN similar_users)

SimilaritySum(similar_users, matrix, h) ==
    SumF([u \in DOMAIN similar_users |->
             IF matrix.values[u, h] > 0 THEN similar_users[u] ELSE 0],
         DOMAIN similar_users)

(* a dict that gets an entry for every hotel a selected neighbour has      *)
(* rated, whatever the similarities sum to                                 *)
PredictionsUnguarded(similar_users, matrix, hotel_ids) ==
    Tabulate(
    [h \in {g \in hotel_ids :
               \E u \in DOMAIN similar_users : matrix.values[u, g] > 0} |->
        Round2(WeightedSum(similar_users, matrix, h),
               Max(SimilaritySum(similar_users, matrix, h), 1))])

(* the predictions dict as a map: hotel -> round(weighted/similarity, 2),  *)
(* entered only if similarity_sum > 0                                      *)
Predictions(similar_users, matrix, hotel_ids) ==
    Tabulate(
    [h \in {g \in hotel_ids : SimilaritySum(similar_users, matrix, g) > 0} |->
        Round2(WeightedSum(similar_users, matrix, h),
               SimilaritySum(similar_users, matrix, h))])

(* hotel_ids = list(set difference) is walked in the iteration order of a  *)
(* Python set, which the language leaves open: the dict can be filled in   *)
(* any order of its keys.  hotel_ids is None in every call of the program. *)
predict_ratings(self, user_ratings) ==
    Only({
        IF fs.raised THEN [self |-> fs.self, raised |-> TRUE, choices |-> {}]
        ELSE LET matrix == fs.self.user_item_matrix[1]
                 hotel_ids == Candidates(user_ratings, matrix)
             IN  [self |-> fs.self, raised |-> FALSE,
                  choices |-> UNION {UNION {
                         {[similar_users |-> su,
                           predictions |-> [i \in 1..Len(order) |->
                                              <<order[i], predictions[order[i]]>>]] :
                            order \in Perms(DOMAIN predictions)}
                     : predictions \in {Predictions(su, matrix, hotel_ids)}}
                     : su \in fs.similar_users}]
        : fs \in {find_similar_users(self, user_ratings)}})

(* sorted(predictions.items(), key=rating, reverse=True): stable *)
RECURSIVE SortedPredictions(_)
SortedPredictions(s) ==
    IF s = <<>> THEN <<>>
    ELSE Only({<<s[i]>> \o SortedPredictions(SubSeq(s, 1, i - 1)
                                              \o SubSeq(s, i + 1, Len(s))) :
                  i \in {CHOOSE j \in 1..Len(s) :
                            /\ \A m \in 1..Len(s) : s[m][2] <= s[j][2]
                            /\ \A m \in 1..(j - 1) : s[m][2] < s[j][2]}})

(* the except branch: _get_popular_recommendations(n), whose own           *)
(* exception leaves get_recommendations                                    *)
ExceptionFallback(self, n_recommendations) ==
    Only({[self |-> self, raised |-> popular.raised, body |-> popular.body,
           branch |-> "exception", similar_users |-> <<>>] :
             popular \in {get_popular_recommendations(self, n_recommendations)}})

(* the set of outcomes [self, raised, body, branch, similar_users] *)
get_recommendations(self, user_ratings, n_recommendations) ==
    IF Cardinality(DOMAIN user_ratings) < ColdStartMin
    THEN {IF popular.raised THEN ExceptionFallback(self, n_recommendations)
          ELSE [self |-> self, raised |-> FALSE, body |-> popular.body,
                branch |-> "cold_start", similar_users |-> <<>>] :
             popular \in {get_popular_recommendations(self, n_recommendations)}}
    ELSE UNION {
             IF pr.raised THEN {ExceptionFallback(pr.self, n_recommendations)}
             ELSE {IF Len(c.predictions) < n_recommendations
                   THEN Only({
                            IF popular.raised
                            THEN ExceptionFallback(pr.self, n_recommendations)
                            ELSE [self |-> pr.self, raised |-> FALSE,
                                  body |-> format_recommendations(pr.self,
                                               c.predictions, user_ratings)
                                           \o popular.body,
                                  branch |-> "padded",
                                  similar_users |-> c.similar_users]
                            : popular \in {get_popular_recommendations(pr.self,
                                           n_recommendations - Len(c.predictions))}})
                   ELSE [self |-> pr.self, raised |-> FALSE,
                         body |-> format_recommendations(pr.self,
                                      SliceTo(SortedPredictions(c.predictions),
                                              n_recommendations),
                                      user_ratings),
                         branch |-> "top_n",
                         similar_users |-> c.similar_users]
                   : c \in pr.choices}
             : pr \in {predict_ratings(self, user_ratings)}}

---------------------------------------------------------------------------
(* Hotel listing *)

(* round(mean, 1), in tenths; 0.0 for a hotel without ratings *)
get_hotel_avg_rating(self, hotel_id) ==
    LET rows == self.ratings_df[1]
        I == RowsOfHotel(rows, hotel_id)
    IN  IF I = {} THEN 0
        ELSE (2 * SumRatings(rows, I) + Cardinality(I)) \div (2 * Cardinality(I))

(* get_all_hotels calling load_data whether or not the tables are loaded *)
get_all_hotels_reloading(self) ==
    Only({
        IF pre.raised THEN [self |-> pre.self, raised |-> TRUE, body |-> <<>>]
        ELSE LET hotels == pre.self.hotels_df[1]
             IN  [self |-> pre.self, raised |-> FALSE,
                  body |-> [h \in DOMAIN hotels |->
                      [hotel_id |-> hotels[h].hotel_id,
                       categorie |-> hotels[h].categorie,
                       localisation |-> hotels[h].localisation,
                       prix |-> hotels[h].prix,
                       avg_rating |-> get_hotel_avg_rating(pre.self,
                                                           hotels[h].hotel_id)]]]
        : pre \in {load_data(self)}})

(* outcome [self, raised, body] *)
get_all_hotels(self) ==
    Only({
        IF pre.raised THEN [self |-> pre.self, raised |-> TRUE, body |-> <<>>]
        ELSE LET hotels == pre.self.hotels_df[1]
             IN  [self |-> pre.self, raised |-> FALSE,
                  body |-> [h \in DOMAIN hotels |->
                      [hotel_id |-> hotels[h].hotel_id,
                       categorie |-> hotels[h].categorie,
                       localisation |-> hotels[h].localisation,
                       prix |-> hotels[h].prix,
                       avg_rating |-> get_hotel_avg_rating(pre.self,
                                                           hotels[h].hotel_id)]]]
        : pre \in {IF ~self.data_loaded THEN load_data(self) ELSE Returned(self)}})

---------------------------------------------------------------------------
(* models/similarity.py.  A rating mapping is a function hotel_id -> rating *)
(* in tenths; a similarity is a float, counted in units of 1/SimScale, or   *)
(* NaN.                                                                     *)

Float(v) == [nan |-> FALSE, value |-> v]

NaN == [nan |-> TRUE, value |-> 0]

(* a / b rounded toward zero, b > 0 *)
SignedDiv(a, b) == IF a >= 0 THEN a \div b ELSE 0 - ((0 - a) \div b)

(* set(user1_ratings.keys()) & set(user2_ratings.keys()) *)
CommonHotels(r1, r2) == DOMAIN r1 \cap DOMAIN r2

(* sklearn cosine_similarity([x], [y])[0][0] over the coordinates I: a row   *)
(* of norm 0 is left as it is by the normalisation and yields 0             *)
CosineOfVectors(x, y, I) ==
    Only({IF nx = 0 \/ ny = 0 THEN 0
          ELSE SignedDiv(SimScale * dot, ISqrt(nx * ny)) :
             dot \in {SumF([h \in I |-> x[h] * y[h]], I)},
             nx \in {SumF([h \in I |-> x[h] * x[h]], I)},
             ny \in {SumF([h \in I |-> y[h] * y[h]], I)}})

cosine_similarity_users(r1, r2) ==
    IF CommonHotels(r1, r2) = {} THEN Float(0)
    ELSE Float(Max(0, CosineOfVectors(r1, r2, CommonHotels(r1, r2))))

(* np.corrcoef(x, y)[0, 1] over the coordinates I: NaN when either side has *)
(* zero variance (0 / 0)                                                    *)
Corrcoef(x, y, I) ==
    Only({IF vx = 0 \/ vy = 0 THEN NaN
          ELSE Float(SignedDiv(SimScale * cov, ISqrt(vx * vy))) :
             cov \in {Cardinality(I) * SumF([h \in I |-> x[h] * y[h]], I)
                         - SumF(x, I) * SumF(y, I)},
             vx \in {Cardinality(I) * SumF([h \in I |-> x[h] * x[h]], I)
                         - SumF(x, I) * SumF(x, I)},
             vy \in {Cardinality(I) * SumF([h \in I |-> y[h] * y[h]], I)
                         - SumF(y, I) * SumF(y, I)}})

(* the correlation as np.corrcoef yields it, NaN included *)
pearson_correlation_raw(r1, r2) ==
    IF Cardinality(CommonHotels(r1, r2)) < 2 THEN Float(0)
    ELSE Corrcoef(r1, r2, CommonHotels(r1, r2))

pearson_correlation(r1, r2) ==
    IF Cardinality(CommonHotels(r1, r2)) < 2 THEN Float(0)
    ELSE Only({IF correlation.nan THEN Float(0) ELSE correlation :
                  correlation \in {Corrcoef(r1, r2, CommonHotels(r1, r2))}})

(* the distance itself, where euclidean_similarity returns 1 / (1 + distance) *)
euclidean_distance(r1, r2) ==
    IF CommonHotels(r1, r2) = {} THEN Float(0)
    ELSE Float(ISqrt(100 * SumF([h \in CommonHotels(r1, r2) |->
                                   (r1[h] - r2[h]) * (r1[h] - r2[h])],
                                CommonHotels(r1, r2))))

(* euclidean_similarity without its test for an empty set of common hotels *)
euclidean_similarity_unguarded(r1, r2) ==
    Float((100 * SimScale) \div
          (100 + ISqrt(100 * SumF([h \in CommonHotels(r1, r2) |->
                                     (r1[h] - r2[h]) * (r1[h] - r2[h])],
                                  CommonHotels(r1, r2)))))

(* 1 / (1 + sqrt(sum_squares)); the distance is counted in hundredths *)
euclidean_similarity(r1, r2) ==
    IF CommonHotels(r1, r2) = {} THEN Float(0)
    ELSE Float((100 * SimScale) \div
               (100 + ISqrt(100 * SumF([h \in CommonHotels(r1, r2) |->
                                          (r1[h] - r2[h]) * (r1[h] - r2[h])],
                                       CommonHotels(r1, r2)))))

(* hotels rated at or above the threshold (3.5) *)
LikedBy(r) == {h \in DOMAIN r : r[h] >= JaccardThreshold}

jaccard_similarity(r1, r2) ==
    IF LikedBy(r1) \cup LikedBy(r2) = {} THEN Float(0)
    ELSE Float((SimScale * Cardinality(LikedBy(r1) \cap LikedBy(r2)))
                   \div Cardinality(LikedBy(r1) \cup LikedBy(r2)))

(* the user-item matrix whose rows are the given rating mappings, one per   *)
(* user id, 0 where a user has no rating                                    *)
MatrixOfUsers(users, hotels) ==
    [index |-> SortedSeq(DOMAIN users),
     columns |-> SortedSeq(hotels),
     values |-> Tabulate([u \in DOMAIN users, h \in hotels |->
                    IF h \in DOMAIN users[u] THEN users[u][h] ELSE 0])]

(* ratings are multiples of 0.5: counted in half stars, which leaves the    *)
(* cosine unchanged                                                         *)
HalfStars(v) == v \div 5

(* the row of user u on the hotels I, minus the mean of the user's ratings  *)
(* > 0, both multiplied by the number of those ratings                      *)
AdjustedRow(matrix, u, I) ==
    Only({[h \in I |-> Cardinality(rated) * HalfStars(matrix.values[u, h])
                          - SumF([g \in rated |-> HalfStars(matrix.values[u, g])],
                                 rated)] :
             rated \in {{g \in SeqToSet(matrix.columns) : matrix.values[u, g] > 0}}})

adjusted_cosine_similarity(ratings_matrix, user1_id, user2_id) ==
    IF user1_id \notin SeqToSet(ratings_matrix.index)
       \/ user2_id \notin SeqToSet(ratings_matrix.index)
    THEN Float(0)
    ELSE Only({IF common = {} THEN Float(0)
               ELSE Float(Max(0, CosineOfVectors(
                                     AdjustedRow(ratings_matrix, user1_id, common),
                                     AdjustedRow(ratings_matrix, user2_id, common),
                                     common))) :
                  common \in {{h \in SeqToSet(ratings_matrix.columns) :
                                 /\ ratings_matrix.values[user1_id, h] > 0
                                 /\ ratings_matrix.values[user2_id, h] > 0}}})

(* SimilarityCalculator.similarity_functions *)
SimilarityMethods == {"cosine", "pearson", "euclidean", "jaccard"}

calculate_similarity(method, r1, r2) ==
    CASE method = "cosine" -> cosine_similarity_users(r1, r2)
      [] method = "pearson" -> pearson_correlation(r1, r2)
      [] method = "euclidean" -> euclidean_similarity(r1, r2)
      [] method = "jaccard" -> jaccard_similarity(r1, r2)

(* similarities.sort(key=similarity, reverse=True): stable *)
RECURSIVE SortedSimilarities(_)
SortedSimilarities(s) ==
    IF s = <<>> THEN <<>>
    ELSE Only({<<s[i]>> \o SortedSimilarities(SubSeq(s, 1, i - 1)
                                               \o SubSeq(s, i + 1, Len(s))) :
                  i \in {CHOOSE j \in 1..Len(s) :
                            /\ \A m \in 1..Len(s) :
                                   s[m].similarity.value <= s[j].similarity.value
                            /\ \A m \in 1..(j - 1) :
                                   s[m].similarity.value < s[j].similarity.value}})

(* all_users_ratings is a dict: a sequence of <<user_id, ratings>> in its   *)
(* insertion order                                                          *)
find_most_similar_users(method, target_ratings, all_users_ratings, k) ==
    SliceTo(SortedSimilarities(
                [i \in 1..Len(all_users_ratings) |->
                    [user_id |-> all_users_ratings[i][1],
                     similarity |-> calculate_similarity(method, target_ratings,
                                                         all_users_ratings[i][2])]]),
            k)

(* the rating mappings a call is made with, over the hotels                 *)
(* 1..MaxSimHotels: the first holds ratings a client gives (1.0, 5.0), the  *)
(* second may also hold 0.0, which a matrix row holds for an unrated hotel  *)
SimHotels == 1..MaxSimHotels

TargetRatingValues == {10, 50}

SimRatingValues == {0, 10, 50}

TargetRatingMaps == UNION {[I -> TargetRatingValues] : I \in SUBSET SimHotels}

SimRatingMaps == UNION {[I -> SimRatingValues] : I \in SUBSET SimHotels}

SimCall(fn, args, result) == [fn |-> fn, args |-> args, result |-> result]

NoSimCall == SimCall("none", <<>>, <<>>)

---------------------------------------------------------------------------
(* Requests and responses *)

(* the hotels of the catalogue and one id that no table knows *)
QueryHotelIds == HotelIds \cup {Len(HotelsCsv) + 1}

(* ratings a client may send, in tenths: 0.0 and 6.0 are out of range *)
QueryRatingValues == {0, 30, 50, 60}

Queries ==
    UNION {[S -> QueryRatingValues] :
              S \in {T \in SUBSET QueryHotelIds : Cardinality(T) <= MaxQueryLen}}

NValues == (0 - 1)..MaxN

(* Dict[str, float] keeps the JSON keys as strings *)
StrKeyed(q) == [key \in {StrKey(h) : h \in DOMAIN q} |-> q[KeyHotel(key)]]

(* Dict[int, float] converts the JSON keys to integers *)
IntKeyed(q) == [key \in {IntKey(h) : h \in DOMAIN q} |-> q[KeyHotel(key)]]

Request(endpoint, user_ratings, n) ==
    [endpoint |-> endpoint, user_ratings |-> user_ratings, n |-> n]

Response(status, body, called, branch, similar_users, predictions) ==
    [status |-> status, body |-> body, called |-> called, branch |-> branch,
     similar_users |-> similar_users, predictions |-> predictions]

NoRequest == Request("none", <<>>, 0)

NoResponse == Response("none", <<>>, FALSE, "none", <<>>, <<>>)

(* 1 <= rating <= 5 *)
ValidRating(r) == 10 <= r /\ r <= 50

Init ==
    /\ files \in FileStates
    /\ ratings_csv \in RatingsTables
    /\ main_recommender = NewRecommender
    /\ recommender = NewRecommender
    /\ phase = "boot"
    /\ req = NoRequest
    /\ resp = NoResponse
    /\ user1_ratings = <<>>
    /\ user2_ratings = <<>>
    /\ sim_call = NoSimCall

(* the server is ready for a request; an instance whose tables cannot be   *)
(* loaded is followed for MaxLoadCalls attempts                            *)
Serving == phase = "idle" /\ recommender.load_calls < MaxLoadCalls

(* main.py lifespan: loads the recommender instance of main.py and logs    *)
(* any failure; the router keeps its own instance                          *)
lifespan ==
    /\ phase = "boot"
    /\ main_recommender' = load_data(main_recommender).self
    /\ phase' = "idle"
    /\ UNCHANGED <<files, ratings_csv, recommender, req, resp>>
    /\ UNCHANGED simvars

(* POST /recommend *)
PostRecommend ==
    /\ Serving
    /\ \E q \in Queries, n \in NValues :
         \E user_ratings \in {StrKeyed(q)} :
             /\ req' = Request("recommend", user_ratings, n)
             /\ IF DOMAIN user_ratings = {}
                   \/ \E key \in DOMAIN user_ratings : ~ValidRating(user_ratings[key])
                THEN /\ resp' = Response("400", <<>>, FALSE, "none", <<>>, <<>>)
                     /\ UNCHANGED recommender
                ELSE \E out \in get_recommendations(recommender, user_ratings, n) :
                     /\ recommender' = out.self
                     /\ resp' = IF out.raised
                                THEN Response("500", <<>>, TRUE, out.branch, <<>>, <<>>)
                                ELSE Response("200", out.body, TRUE, out.branch,
                                              out.similar_users, <<>>)
    /\ phase' = "responded"
    /\ UNCHANGED <<files, ratings_csv, main_recommender>>
    /\ UNCHANGED simvars

(* POST /recommend/simple *)
PostRecommendSimple ==
    /\ Serving
    /\ \E q \in Queries :
         \E user_ratings \in {IntKeyed(q)} :
             /\ req' = Request("recommend_simple", user_ratings, SimpleN)
             /\ IF DOMAIN user_ratings = {}
                THEN /\ resp' = Response("400", <<>>, FALSE, "none", <<>>, <<>>)
                     /\ UNCHANGED recommender
                ELSE \E out \in get_recommendations(recommender, user_ratings, SimpleN) :
                     /\ recommender' = out.self
                     /\ resp' = IF out.raised
                                THEN Response("500", <<>>, TRUE, out.branch, <<>>, <<>>)
                                ELSE Response("200", out.body, TRUE, out.branch,
                                              out.similar_users, <<>>)
    /\ phase' = "responded"
    /\ UNCHANGED <<files, ratings_csv, main_recommender>>
    /\ UNCHANGED simvars

(* a direct call of HotelRecommender.get_recommendations on the router's   *)
(* instance, with integer hotel ids                                        *)
CallGetRecommendations ==
    /\ Serving
    /\ \E q \in Queries, n \in NValues :
         \E user_ratings \in {IntKeyed(q)} :
             /\ req' = Request("get_recommendations", user_ratings, n)
             /\ \E out \in get_recommendations(recommender, user_ratings, n) :
                     /\ recommender' = out.self
                     /\ resp' = IF out.raised
                                THEN Response("raised", <<>>, TRUE, out.branch, <<>>, <<>>)
                                ELSE Response("returned", out.body, TRUE, out.branch,
                                              out.similar_users, <<>>)
    /\ phase' = "responded"
    /\ UNCHANGED <<files, ratings_csv, main_recommender>>
    /\ UNCHANGED simvars

(* a direct call of HotelRecommender.predict_ratings *)
CallPredictRatings ==
    /\ Serving
    /\ \E q \in Queries :
         \E user_ratings \in {IntKeyed(q)} :
         \E pr \in {predict_ratings(recommender, user_ratings)} :
             /\ req' = Request("predict_ratings", user_ratings, 0)
             /\ recommender' = pr.self
             /\ IF pr.raised
                THEN resp' = Response("raised", <<>>, TRUE, "none", <<>>, <<>>)
                ELSE \E c \in pr.choices :
                        resp' = Response("returned", <<>>, TRUE, "none",
                                         c.similar_users, c.predictions)
    /\ phase' = "responded"
    /\ UNCHANGED <<files, ratings_csv, main_recommender>>
    /\ UNCHANGED simvars

(* GET /hotels *)
GetAllHotels ==
    /\ Serving
    /\ \E out \in {get_all_hotels(recommender)} :
           /\ recommender' = out.self
           /\ req' = Request("hotels", <<>>, 0)
           /\ resp' = IF out.raised
                      THEN Response("500", <<>>, TRUE, "none", <<>>, <<>>)
                      ELSE Response("200", out.body, TRUE, "none", <<>>, <<>>)
    /\ phase' = "responded"
    /\ UNCHANGED <<files, ratings_csv, main_recommender>>
    /\ UNCHANGED simvars

(* GET /hotels/{hotel_id} *)
GetHotelById ==
    /\ Serving
    /\ \E hotel_id \in QueryHotelIds :
         \E out \in {get_all_hotels(recommender)} :
         \E found \in {{i \in 1..Len(out.body) : out.body[i].hotel_id = hotel_id}} :
             /\ recommender' = out.self
             /\ req' = Request("hotel_by_id", <<>>, hotel_id)
             /\ resp' = IF out.raised
                        THEN Response("500", <<>>, TRUE, "none", <<>>, <<>>)
                        ELSE IF found = {}
                        THEN Response("404", <<>>, TRUE, "none", <<>>, <<>>)
                        ELSE Response("200",
                                 <<out.body[CHOOSE i \in found : \A j \in found : i <= j]>>,
                                 TRUE, "none", <<>>, <<>>)
    /\ phase' = "responded"
    /\ UNCHANGED <<files, ratings_csv, main_recommender>>
    /\ UNCHANGED simvars

(* a stats endpoint that remembers a failed load and does not try again *)
GetSystemStatsNoRetry ==
    /\ Serving
    /\ \E pre \in {IF ~recommender.data_loaded /\ recommender.load_calls = 0
                    THEN load_data(recommender)
                    ELSE IF ~recommender.data_loaded THEN Raised(recommender)
                    ELSE Returned(recommender)} :
           /\ recommender' = pre.self
           /\ req' = Request("stats", <<>>, 0)
           /\ resp' = IF pre.raised
                      THEN Response("500", <<>>, TRUE, "none", <<>>, <<>>)
                      ELSE Response("200", <<>>, TRUE, "none", <<>>, <<>>)
    /\ phase' = "responded"
    /\ UNCHANGED <<files, ratings_csv, main_recommender>>
    /\ UNCHANGED simvars

(* GET /stats *)
GetSystemStats ==
    /\ Serving
    /\ \E pre \in {IF ~recommender.data_loaded THEN load_data(recommender)
                    ELSE Returned(recommender)} :
           /\ recommender' = pre.self
           /\ req' = Request("stats", <<>>, 0)
           /\ resp' = IF pre.raised
                      THEN Response("500", <<>>, TRUE, "none", <<>>, <<>>)
                      ELSE Response("200", <<>>, TRUE, "none", <<>>, <<>>)
    /\ phase' = "responded"
    /\ UNCHANGED <<files, ratings_csv, main_recommender>>
    /\ UNCHANGED simvars

(* a health endpoint that answers 'healthy' whatever load_data did *)
HealthCheckAlwaysHealthy ==
    /\ Serving
    /\ \E pre \in {IF ~recommender.data_loaded THEN load_data(recommender)
                    ELSE Returned(recommender)} :
           /\ recommender' = pre.self
           /\ req' = Request("health", <<>>, 0)
           /\ resp' = Response("healthy", <<>>, TRUE, "none", <<>>, <<>>)
    /\ phase' = "responded"
    /\ UNCHANGED <<files, ratings_csv, main_recommender>>
    /\ UNCHANGED simvars

(* GET /health *)
HealthCheck ==
    /\ Serving
    /\ \E pre \in {IF ~recommender.data_loaded THEN load_data(recommender)
                    ELSE Returned(recommender)} :
           /\ recommender' = pre.self
           /\ req' = Request("health", <<>>, 0)
           /\ resp' = IF pre.raised
                      THEN Response("unhealthy", <<>>, TRUE, "none", <<>>, <<>>)
                      ELSE Response("healthy", <<>>, TRUE, "none", <<>>, <<>>)
    /\ phase' = "responded"
    /\ UNCHANGED <<files, ratings_csv, main_recommender>>
    /\ UNCHANGED simvars

(* the response reaches the client; the server is ready for the next request *)
Deliver ==
    /\ phase = "responded"
    /\ phase' = "idle"
    /\ req' = NoRequest
    /\ resp' = NoResponse
    /\ UNCHANGED <<files, ratings_csv, main_recommender, recommender>>
    /\ UNCHANGED simvars

Next ==
    \/ lifespan
    \/ PostRecommend
    \/ PostRecommendSimple
    \/ CallGetRecommendations
    \/ CallPredictRatings
    \/ GetAllHotels
    \/ GetHotelById
    \/ GetSystemStats
    \/ HealthCheck
    \/ Deliver

Spec == Init /\ [][Next]_vars

(* the same application started on a rating table without rows *)
EmptyTableInit ==
    /\ files \in FileStates
    /\ ratings_csv = TableEmpty
    /\ main_recommender = NewRecommender
    /\ recommender = NewRecommender
    /\ phase = "boot"
    /\ req = NoRequest
    /\ resp = NoResponse
    /\ user1_ratings = <<>>
    /\ user2_ratings = <<>>
    /\ sim_call = NoSimCall

EmptyTableSpec == EmptyTableInit /\ [][Next]_vars

---------------------------------------------------------------------------
(* Calls into models/similarity.py: two rating mappings are given, and each *)
(* action is one call of one function on them                               *)

SimInit ==
    /\ files = AllFiles
    /\ ratings_csv = TableScenario
    /\ main_recommender = NewRecommender
    /\ recommender = NewRecommender
    /\ phase = "boot"
    /\ req = NoRequest
    /\ resp = NoResponse
    /\ user1_ratings \in TargetRatingMaps
    /\ user2_ratings \in SimRatingMaps
    /\ sim_call = NoSimCall

CallMetric(fn, result) ==
    /\ sim_call = NoSimCall
    /\ sim_call' = SimCall(fn, <<>>, result)
    /\ UNCHANGED <<files, ratings_csv, main_recommender, recommender, phase, req,
                   resp, user1_ratings, user2_ratings>>

CallCosineSimilarityUsers ==
    CallMetric("cosine", cosine_similarity_users(user1_ratings, user2_ratings))

CallPearsonCorrelation ==
    CallMetric("pearson", pearson_correlation(user1_ratings, user2_ratings))

CallEuclideanSimilarity ==
    CallMetric("euclidean", euclidean_similarity(user1_ratings, user2_ratings))

CallJaccardSimilarity ==
    CallMetric("jaccard", jaccard_similarity(user1_ratings, user2_ratings))

(* the two mappings are rows 1 and 2 of the matrix; 3 is in no row *)
CallAdjustedCosineSimilarity ==
    /\ sim_call = NoSimCall
    /\ \E user1_id \in 1..3, user2_id \in 1..3 :
          sim_call' = SimCall("adjusted_cosine", <<user1_id, user2_id>>,
              adjusted_cosine_similarity(
                  MatrixOfUsers(<<user1_ratings, user2_ratings>>, SimHotels),
                  user1_id, user2_id))
    /\ UNCHANGED <<files, ratings_csv, main_recommender, recommender, phase, req,
                   resp, user1_ratings, user2_ratings>>

(* the target is the first mapping; the dict holds both mappings, under the *)
(* user ids 1 and 2, inserted in either order                               *)
CallFindMostSimilarUsers ==
    /\ sim_call = NoSimCall
    /\ \E method \in SimilarityMethods, k \in 1..MaxK, order \in Perms({1, 2}) :
          sim_call' = SimCall("find_most_similar_users", <<method, k, order>>,
              find_most_similar_users(method, user1_ratings,
                  [i \in 1..2 |-> <<order[i],
                                    <<user1_ratings, user2_ratings>>[order[i]]>>],
                  k))
    /\ UNCHANGED <<files, ratings_csv, main_recommender, recommender, phase, req,
                   resp, user1_ratings, user2_ratings>>

SimNext ==
    \/ CallCosineSimilarityUsers
    \/ CallPearsonCorrelation
    \/ CallEuclideanSimilarity
    \/ CallJaccardSimilarity
    \/ CallAdjustedCosineSimilarity
    \/ CallFindMostSimilarUsers

SimSpec == SimInit /\ [][SimNext]_vars

---------------------------------------------------------------------------
(* Vocabulary of the properties *)

RecommendEndpoints == {"recommend", "recommend_simple", "get_recommendations"}

(* get_recommendations was called by the last request *)
RecommenderCalled == req.endpoint \in RecommendEndpoints /\ resp.called

(* ... and returned a list to its caller *)
ListReturned == RecommenderCalled /\ resp.status \in {"200", "returned"}

QuerySize == Cardinality(DOMAIN req.user_ratings)

AllRatingsValid ==
    \A key \in DOMAIN req.user_ratings : ValidRating(req.user_ratings[key])

(* a list was returned for a query whose ratings all lie in [1, 5] *)
ValidListReturned == ListReturned /\ AllRatingsValid

IsPopular(item) == item.explanation.rule = "populaire"

(* the positions of the personalized entries of the returned list *)
PersonalizedPositions == {i \in 1..Len(resp.body) : ~IsPopular(resp.body[i])}

---------------------------------------------------------------------------
(* predict_ratings, recomputed from the matrix and the neighbours returned *)

PredictReturned == req.endpoint = "predict_ratings" /\ resp.status = "returned"

PredictedHotels == {resp.predictions[i][1] : i \in 1..Len(resp.predictions)}

PredictedValue(h) ==
    resp.predictions[CHOOSE i \in 1..Len(resp.predictions) :
                         resp.predictions[i][1] = h][2]

UnratedColumns ==
    {h \in SeqToSet(recommender.user_item_matrix[1].columns) :
        IntKey(h) \notin DOMAIN req.user_ratings}

Cell(u, h) == recommender.user_item_matrix[1].values[u, h]

(* the selected neighbours whose cell for h is not 0 *)
Contributing(h) == {u \in DOMAIN resp.similar_users : Cell(u, h) # 0}

ContributingSimilarity(h) ==
    SumF([u \in Contributing(h) |-> resp.similar_users[u]], Contributing(h))

ContributingWeighted(h) ==
    SumF([u \in Contributing(h) |-> resp.similar_users[u] * Cell(u, h)],
         Contributing(h))

(* the unrounded predicted values of g and h are equal *)
SameQuotient(g, h) ==
    ContributingWeighted(g) * ContributingSimilarity(h)
        = ContributingWeighted(h) * ContributingSimilarity(g)

---------------------------------------------------------------------------
(* C1: the list returned by get_recommendations has at most n items, in    *)
(* every branch and for every count n the request layer accepts; a count   *)
(* below 0 is read as "no item".                                           *)
C1_AtMostN == ValidListReturned => Len(resp.body) <= Max(req.n, 0)

(* C2: no returned item, personalized or popular, has a hotel_id that is   *)
(* a key of the query mapping.                                             *)
C2_ExcludesRated ==
    ValidListReturned =>
        \A i \in 1..Len(resp.body) :
            IntKey(resp.body[i].hotel_id) \notin DOMAIN req.user_ratings

(* C3: for a valid query, get_recommendations returns a list and raises    *)
(* nothing in every instance state, and the list of the exception branch   *)
(* is the full popularity list for n.  Stated for the runs in which the    *)
(* source tables exist and startup has loaded them.                        *)
C3_AlwaysReturnsList ==
    (RecommenderCalled /\ AllRatingsValid /\ main_recommender.data_loaded) =>
        /\ resp.status \in {"200", "returned"}
        /\ resp.branch = "exception" =>
               resp.body = get_popular_recommendations(recommender, req.n).body

(* C4: POST /recommend and POST /recommend/simple reject the whole request *)
(* with a validation error, without calling the recommender, as soon as    *)
(* one submitted rating is below 1 or above 5.  Stated for the requests    *)
(* after which the serving instance holds its tables.                      *)
C4_RejectsOutOfRange ==
    (/\ req.endpoint \in {"recommend", "recommend_simple"}
     /\ ~AllRatingsValid
     /\ recommender.data_loaded) =>
        resp.status = "400" /\ ~resp.called

(* C5: with fewer than 2 query entries the outcome of get_recommendations  *)
(* is the outcome of _get_popular_recommendations(n), the same list in the *)
(* same order with the same explanations, and that list is not empty when  *)
(* n >= 1 and the loaded rating table has a row.                           *)
C5_ColdStartIsPopular ==
    (RecommenderCalled /\ QuerySize < 2) =>
        LET popular == get_popular_recommendations(recommender, req.n)
        IN  /\ ListReturned <=> ~popular.raised
            /\ ListReturned => resp.body = popular.body
            /\ (ListReturned /\ req.n >= 1 /\ Len(recommender.ratings_df[1]) >= 1)
                   => Len(resp.body) >= 1

C5_Witness ==
    /\ req.endpoint = "get_recommendations"
    /\ QuerySize = 1
    /\ AllRatingsValid
    /\ recommender.data_loaded
    /\ recommender.model # None
    /\ \E key \in DOMAIN req.user_ratings :
           InColumns(key, recommender.user_item_matrix[1])
    /\ resp.status = "returned"
    /\ Len(resp.body) >= 2

(* C6: once startup has completed without a load error, the recommender    *)
(* instance that serves the requests has its tables loaded, before any     *)
(* request is handled.                                                     *)
C6_ServingInstanceLoaded ==
    (phase # "boot" /\ main_recommender.data_loaded) => recommender.data_loaded

(* C7: no hotel_id appears twice in the list returned by                   *)
(* get_recommendations.                                                    *)
C7_NoDuplicates ==
    ValidListReturned =>
        \A i, j \in 1..Len(resp.body) :
            i # j => resp.body[i].hotel_id # resp.body[j].hotel_id

C9_SortedDescending ==
    ValidListReturned =>
        \A i, j \in PersonalizedPositions :
            i < j =>
                /\ resp.body[i].predicted_rating >= resp.body[j].predicted_rating
                /\ SameQuotient(resp.body[i].hotel_id, resp.body[j].hotel_id)
                       => resp.body[i].hotel_id < resp.body[j].hotel_id

---------------------------------------------------------------------------
---------------------------------------------------------------------------
(* C11: the neighbours returned by find_similar_users all have a similarity *)
(* strictly greater than 0 to the query, and there are at most k of them.   *)
C11_OnlyPositiveNeighbours ==
    (PredictReturned /\ AllRatingsValid) =>
        /\ Cardinality(DOMAIN resp.similar_users) <= recommender.k
        /\ \A u \in DOMAIN resp.similar_users : resp.similar_users[u] > 0

(* no user of the matrix has a positive similarity to the query vector:    *)
(* every product of a query rating and a user's cell is 0                  *)
NoPositiveSimilarity ==
    \A u \in SeqToSet(recommender.user_item_matrix[1].index) :
        \A key \in DOMAIN req.user_ratings :
            InColumns(key, recommender.user_item_matrix[1]) =>
                req.user_ratings[key] * Cell(u, KeyHotel(key)) = 0

(* C12: a query of 2 or more ratings to which no user of the matrix has a   *)
(* positive similarity gets the popularity list for n and no personalized  *)
(* entry.                                                                   *)
C12_NoNeighbourIsPopular ==
    (/\ RecommenderCalled
     /\ QuerySize >= 2
     /\ recommender.user_item_matrix # None
     /\ NoPositiveSimilarity) =>
        /\ ListReturned
        /\ PersonalizedPositions = {}
        /\ ~get_popular_recommendations(recommender, req.n).raised
        /\ resp.body = get_popular_recommendations(recommender, req.n).body

C12_Witness ==
    /\ ListReturned
    /\ QuerySize >= 2
    /\ AllRatingsValid
    /\ recommender.user_item_matrix # None
    /\ NoPositiveSimilarity
    /\ resp.branch = "padded"
    /\ DOMAIN resp.similar_users # {}
    /\ \A u \in DOMAIN resp.similar_users : resp.similar_users[u] = 0
    /\ Len(resp.body) >= 2

---------------------------------------------------------------------------
(* Properties of models/similarity.py, stated on the outcome of one call *)

PairMetrics == {"cosine", "pearson", "euclidean", "jaccard"}

(* the call compared the two given rating mappings with one another *)
ComparedTheTwo ==
    \/ sim_call.fn \in PairMetrics
    \/ sim_call.fn = "adjusted_cosine" /\ sim_call.args \in {<<1, 2>>, <<2, 1>>}

NoCommonHotel == DOMAIN user1_ratings \cap DOMAIN user2_ratings = {}

(* C13: when the two rating sets have no commonly rated hotel, each of the  *)
(* five metrics returns exactly 0.                                          *)
C13_DisjointIsZero ==
    (ComparedTheTwo /\ NoCommonHotel) => sim_call.result = Float(0)

(* two non-empty disjoint sets, each with a liked hotel, were compared by   *)
(* the Euclidean metric                                                     *)
C13_Witness ==
    /\ sim_call.fn = "euclidean"
    /\ NoCommonHotel
    /\ LikedBy(user1_ratings) # {}
    /\ LikedBy(user2_ratings) # {}
    /\ sim_call.result = Float(0)

(* a rating mapping was compared with itself, and it is a non-empty set of  *)
(* ratings above 0                                                          *)
ComparedWithItself ==
    /\ sim_call.fn \in PairMetrics
    /\ user1_ratings = user2_ratings
    /\ DOMAIN user1_ratings # {}
    /\ \A h \in DOMAIN user1_ratings : user1_ratings[h] > 0

AllRatingsEqual(r) == \A g, h \in DOMAIN r : r[g] = r[h]

(* C14, as stated: the similarity of a non-empty rating set with itself is  *)
(* 1.0 for the cosine and the Euclidean metrics, and for the Pearson metric *)
(* when the set has at least 2 rated hotels.                                *)
C14_SelfSimilarityIsOne ==
    ComparedWithItself =>
        /\ sim_call.fn \in {"cosine", "euclidean"} =>
               sim_call.result = Float(SimScale)
        /\ (sim_call.fn = "pearson" /\ Cardinality(DOMAIN user1_ratings) >= 2) =>
               sim_call.result = Float(SimScale)

(* C14, amended: the same, with the Pearson metric equal to 1.0 when the    *)
(* set has at least 2 rated hotels whose ratings are not all equal.         *)
C14_SelfSimilarityIsOneUnlessConstant ==
    ComparedWithItself =>
        /\ sim_call.fn \in {"cosine", "euclidean"} =>
               sim_call.result = Float(SimScale)
        /\ (/\ sim_call.fn = "pearson"
            /\ Cardinality(DOMAIN user1_ratings) >= 2
            /\ ~AllRatingsEqual(user1_ratings)) =>
               sim_call.result = Float(SimScale)

C14_Witness ==
    /\ ComparedWithItself
    /\ sim_call.fn = "pearson"
    /\ Cardinality(DOMAIN user1_ratings) >= 2
    /\ ~AllRatingsEqual(user1_ratings)
    /\ sim_call.result = Float(SimScale)

InUnitInterval(x) == ~x.nan /\ 0 <= x.value /\ x.value <= SimScale

PositiveRatings(r) == \A h \in DOMAIN r : r[h] > 0

(* C15: for each metric selectable in SimilarityCalculator, the score of   *)
(* any two rating sets, alone or in the list of most similar users, is     *)
(* never negative and never above 1.                                       *)
C15_ScoresInUnitInterval ==
    (PositiveRatings(user1_ratings) /\ PositiveRatings(user2_ratings)) =>
        /\ sim_call.fn \in PairMetrics => InUnitInterval(sim_call.result)
        /\ sim_call.fn = "find_most_similar_users" =>
               \A i \in 1..Len(sim_call.result) :
                   InUnitInterval(sim_call.result[i].similarity)

(* the ratings of r over the hotels both sets rate are all equal *)
ConstantOnCommon(r) ==
    \A g, h \in DOMAIN user1_ratings \cap DOMAIN user2_ratings : r[g] = r[h]

(* C16: no metric returns NaN; Pearson returns 0 when there are fewer than *)
(* 2 commonly rated hotels or when either side's ratings over the common   *)
(* hotels are all equal; Jaccard returns 0 when neither side has a rating  *)
(* at or above the liked threshold; cosine returns 0 when a side is all    *)
(* zero over the common hotels.                                            *)
C16_ZeroInsteadOfNaN ==
    /\ sim_call.fn \in PairMetrics \cup {"adjusted_cosine"} => ~sim_call.result.nan
    /\ sim_call.fn = "find_most_similar_users" =>
           \A i \in 1..Len(sim_call.result) : ~sim_call.result[i].similarity.nan
    /\ (/\ sim_call.fn = "pearson"
        /\ \/ Cardinality(DOMAIN user1_ratings \cap DOMAIN user2_ratings) < 2
           \/ ConstantOnCommon(user1_ratings)
           \/ ConstantOnCommon(user2_ratings)) =>
           sim_call.result = Float(0)
    /\ (/\ sim_call.fn = "jaccard"
        /\ \A h \in DOMAIN user1_ratings : user1_ratings[h] < JaccardThreshold
        /\ \A h \in DOMAIN user2_ratings : user2_ratings[h] < JaccardThreshold) =>
           sim_call.result = Float(0)
    /\ (/\ sim_call.fn = "cosine"
        /\ \/ \A h \in DOMAIN user1_ratings \cap DOMAIN user2_ratings :
                  user1_ratings[h] = 0
           \/ \A h \in DOMAIN user1_ratings \cap DOMAIN user2_ratings :
                  user2_ratings[h] = 0) =>
           sim_call.result = Float(0)

(* Pearson was called on two sets with 2 common hotels or more, one side   *)
(* constant over them and the other not                                    *)
C16_Witness ==
    /\ sim_call.fn = "pearson"
    /\ Cardinality(DOMAIN user1_ratings \cap DOMAIN user2_ratings) >= 2
    /\ PositiveRatings(user1_ratings) /\ PositiveRatings(user2_ratings)
    /\ ConstantOnCommon(user1_ratings)
    /\ ~ConstantOnCommon(user2_ratings)
    /\ sim_call.result = Float(0)

Ascending(s) == \A i, j \in 1..Len(s) : i < j => s[i] < s[j]

(* the matrix an instance holds is the table of means of ratings_csv *)
MatrixIsMeanTable(self) ==
    self.user_item_matrix # None =>
        /\ Ascending(self.user_item_matrix[1].index)
        /\ Ascending(self.user_item_matrix[1].columns)
        /\ SeqToSet(self.user_item_matrix[1].index) = RatingUsers(ratings_csv)
        /\ SeqToSet(self.user_item_matrix[1].columns) = RatedHotels(ratings_csv)
        /\ \A u \in RatingUsers(ratings_csv), h \in RatedHotels(ratings_csv) :
               /\ RowsOf(ratings_csv, u, h) # {} =>
                      Cardinality(RowsOf(ratings_csv, u, h))
                              * self.user_item_matrix[1].values[u, h]
                          = SumRatings(ratings_csv, RowsOf(ratings_csv, u, h))
               /\ RowsOf(ratings_csv, u, h) = {} =>
                      self.user_item_matrix[1].values[u, h] = 0
               /\ self.user_item_matrix[1].values[u, h] = 0
                      <=> RowsOf(ratings_csv, u, h) = {}
        /\ prepare_user_item_matrix(self).self.user_item_matrix
               = self.user_item_matrix

(* C17: in the user-item matrix the cell of (user, hotel) is the mean of   *)
(* all rating rows of the pair, and 0 exactly when there is none; rows and *)
(* columns are in ascending id order; building the matrix again from the   *)
(* same table gives the same matrix.                                       *)
C17_MatrixIsMeanTable ==
    MatrixIsMeanTable(recommender) /\ MatrixIsMeanTable(main_recommender)

(* a matrix built from a table with two different ratings for one pair and *)
(* no rating for another                                                   *)
C17_Witness ==
    /\ recommender.user_item_matrix # None
    /\ \E u \in RatingUsers(ratings_csv), h \in RatedHotels(ratings_csv) :
          \E i, j \in RowsOf(ratings_csv, u, h) :
              ratings_csv[i].rating # ratings_csv[j].rating
    /\ \E u \in RatingUsers(ratings_csv), h \in RatedHotels(ratings_csv) :
          RowsOf(ratings_csv, u, h) = {}

(* the instance get_recommendations was called on holds a matrix with zero *)
(* rows and zero columns                                                   *)
EmptyMatrix ==
    /\ recommender.user_item_matrix # None
    /\ recommender.user_item_matrix[1].index = <<>>
    /\ recommender.user_item_matrix[1].columns = <<>>

(* C18: with an empty rating table, get_recommendations returns a list for *)
(* every query and n, and raises no exception to its caller.               *)
C18_EmptyTableReturnsList ==
    (RecommenderCalled /\ EmptyMatrix) => ListReturned

(* count, average (2 decimals) and score of a hotel over the whole table *)
CountOf(h) == Cardinality(RowsOfHotel(ratings_csv, h))

AvgOf(h) == Round2(SumRatings(ratings_csv, RowsOfHotel(ratings_csv, h)), CountOf(h))

ScoreOf(h) == AvgOf(h) * LnMilli(CountOf(h) + 1)

(* the popularity list as get_recommendations returns it for a query with  *)
(* fewer than 2 entries                                                    *)
PopularListReturned == ListReturned /\ QuerySize < ColdStartMin

(* C19: _get_popular_recommendations(n) returns the n hotels with the      *)
(* highest avg_rating * ln(count + 1) over the whole rating table, in      *)
(* descending score order; a hotel with average 4.0 over 100 ratings       *)
(* scores above a hotel with average 4.5 over 3 ratings.                   *)
C19_TopNByLogScore ==
    /\ PopularityScore(400, 100) > PopularityScore(450, 3)
    /\ PopularListReturned =>
           /\ Len(resp.body) = Min(Max(req.n, 0), Cardinality(RatedHotels(ratings_csv)))
           /\ \A i \in 1..Len(resp.body) :
                  /\ resp.body[i].hotel_id \in RatedHotels(ratings_csv)
                  /\ resp.body[i].predicted_rating = AvgOf(resp.body[i].hotel_id)
                  /\ \A g \in RatedHotels(ratings_csv)
                             \ {resp.body[j].hotel_id : j \in 1..Len(resp.body)} :
                         ScoreOf(resp.body[i].hotel_id) >= ScoreOf(g)
           /\ \A i, j \in 1..Len(resp.body) :
                  i < j => /\ resp.body[i].hotel_id # resp.body[j].hotel_id
                           /\ ScoreOf(resp.body[i].hotel_id)
                                  >= ScoreOf(resp.body[j].hotel_id)

(* a popularity list that leaves a rated hotel out and ranks a hotel above *)
(* one with a higher average                                               *)
C19_Witness ==
    /\ PopularListReturned
    /\ Len(resp.body) >= 2
    /\ Len(resp.body) < Cardinality(RatedHotels(ratings_csv))
    /\ resp.body[1].predicted_rating < resp.body[2].predicted_rating

(* the catalogue hotels the query rates 4 or more *)
HighRated ==
    {h \in HotelIds : IntKey(h) \in DOMAIN req.user_ratings
                         /\ req.user_ratings[IntKey(h)] >= 40}

CategoryMatch(item) == \E h \in HighRated : HotelsCsv[h].categorie = item.categorie

LocationMatch(item) == \E h \in HighRated : HotelsCsv[h].localisation = item.localisation

(* |price - mean price of the highly rated hotels|, times their number *)
PriceGap(item) ==
    Abs(item.prix * Cardinality(HighRated)
            - SumF([h \in HighRated |-> HotelsCsv[h].prix], HighRated))

PriceWithin(item) ==
    HighRated # {} /\ PriceGap(item) <= PriceTolerance * Cardinality(HighRated)

PriceStrictlyWithin(item) ==
    HighRated # {} /\ PriceGap(item) < PriceTolerance * Cardinality(HighRated)

(* C20, as stated: the explanation of a personalized recommendation is the *)
(* first rule that applies among category match, location match, price     *)
(* within 100 units of the mean price of the hotels rated >= 4, and the    *)
(* generic message.                                                        *)
C20_PriorityWithin100 ==
    ValidListReturned =>
        \A i \in PersonalizedPositions :
            resp.body[i].explanation.rule =
                IF CategoryMatch(resp.body[i]) THEN "categorie"
                ELSE IF LocationMatch(resp.body[i]) THEN "localisation"
                ELSE IF PriceWithin(resp.body[i]) THEN "gamme_de_prix"
                ELSE "gouts_similaires"

(* C20, amended: the same, with the price rule applying when the price is  *)
(* less than 100 units away from the mean price: at exactly 100 units the  *)
(* generic message is used.                                                *)
C20_PriorityLessThan100 ==
    ListReturned =>
        \A i \in PersonalizedPositions :
            resp.body[i].explanation.rule =
                IF CategoryMatch(resp.body[i]) THEN "categorie"
                ELSE IF LocationMatch(resp.body[i]) THEN "localisation"
                ELSE IF PriceStrictlyWithin(resp.body[i]) THEN "gamme_de_prix"
                ELSE "gouts_similaires"

(* a personalized recommendation exactly 100 units away from the mean      *)
(* price, with no category or location match, carries the generic message *)
C20_Witness ==
    /\ ListReturned
    /\ AllRatingsValid
    /\ \E i \in PersonalizedPositions :
          /\ ~CategoryMatch(resp.body[i])
          /\ ~LocationMatch(resp.body[i])
          /\ PriceWithin(resp.body[i])
          /\ ~PriceStrictlyWithin(resp.body[i])
          /\ resp.body[i].explanation.rule = "gouts_similaires"

---------------------------------------------------------------------------
(* the query with the keys that are not columns of the matrix removed *)
KnownOnly(user_ratings, matrix) ==
    [key \in {k \in DOMAIN user_ratings : InColumns(k, matrix)} |-> user_ratings[key]]

PredictCalled == req.endpoint = "predict_ratings" /\ resp.called

(* C21: hotel ids of the query that are not columns of the matrix are      *)
(* ignored: predict_ratings has the same outcome, error or mapping, on the *)
(* query and on the query without its unknown ids.                         *)
C21_UnknownIdsIgnored ==
    (PredictCalled /\ recommender.user_item_matrix # None) =>
        /\ predict_ratings(recommender, req.user_ratings)
               = predict_ratings(recommender,
                     KnownOnly(req.user_ratings, recommender.user_item_matrix[1]))
        /\ PredictReturned =>
               [similar_users |-> resp.similar_users, predictions |-> resp.predictions]
                   \in predict_ratings(recommender,
                           KnownOnly(req.user_ratings,
                                     recommender.user_item_matrix[1])).choices

(* a query with a known and an unknown hotel id got a non-empty mapping *)
C21_Witness ==
    /\ PredictReturned
    /\ AllRatingsValid
    /\ \E key \in DOMAIN req.user_ratings :
          InColumns(key, recommender.user_item_matrix[1])
    /\ \E key \in DOMAIN req.user_ratings :
          ~InColumns(key, recommender.user_item_matrix[1])
    /\ resp.predictions # <<>>

HealthCalled == req.endpoint = "health" /\ resp.called

(* C22: the health endpoint answers 'healthy' only when the tables of the  *)
(* serving recommender are loaded at response time, and 'unhealthy' on     *)
(* every call made while a source table is missing.                        *)
C22_HealthReportsLoaded ==
    HealthCalled =>
        /\ resp.status \in {"healthy", "unhealthy"}
        /\ resp.status = "healthy" =>
               /\ recommender.data_loaded
               /\ recommender.hotels_df # None
               /\ recommender.users_df # None
               /\ recommender.ratings_df # None
        /\ files # AllFiles => resp.status = "unhealthy"

(* a health call made while ratings.csv is missing, after the two other    *)
(* tables were read                                                        *)
C22_Witness ==
    /\ HealthCalled
    /\ "ratings" \notin files
    /\ recommender.hotels_df # None
    /\ ~recommender.data_loaded
    /\ resp.status = "unhealthy"

(* from one state to the next, a loaded instance keeps its tables and its  *)
(* matrix, and load_data is not entered                                    *)
TablesKept(self, next) ==
    self.data_loaded =>
        /\ next.data_loaded
        /\ next.hotels_df = self.hotels_df
        /\ next.users_df = self.users_df
        /\ next.ratings_df = self.ratings_df
        /\ next.user_item_matrix = self.user_item_matrix
        /\ next.load_calls = self.load_calls

(* C23: once the tables of a recommender instance are loaded, no request   *)
(* changes the hotels table, the ratings table or the user-item matrix,    *)
(* and none enters load_data again.                                        *)
C23_LoadedTablesAreReadOnly ==
    [][TablesKept(recommender, recommender')
       /\ TablesKept(main_recommender, main_recommender')]_vars

(* a request served by an instance that an earlier request had loaded and  *)
(* trained                                                                 *)
C23_Witness ==
    /\ req.endpoint \in {"hotels", "hotel_by_id", "stats", "health"}
    /\ resp.called
    /\ recommender.data_loaded
    /\ recommender.model # None
    /\ recommender.load_calls = 1

(* the scenario: the table U1 {H1:5, H2:5}, U2 {H1:5, H2:4, H3:3},         *)
(* U3 {H3:5, H4:5} and the query {H1:5, H2:5}                              *)
ScenarioQuery == IntKey(1) :> 50 @@ IntKey(2) :> 50

InScenario == ratings_csv = TableScenario /\ req.user_ratings = ScenarioQuery

NeighbourRatings(h) ==
    {ratings_csv[i].rating :
        i \in {j \in 1..Len(ratings_csv) : /\ ratings_csv[j].hotel_id = h
                                           /\ ratings_csv[j].user_id \in Contributing(h)}}

C26_ClampedSelectionCompletes ==
    (PredictCalled /\ recommender.user_item_matrix # None) =>
        /\ recommender.model # None
        /\ recommender.model[1].n_neighbors
               = Min(recommender.k, Len(recommender.user_item_matrix[1].index) - 1)
        /\ PredictReturned
        /\ Cardinality(DOMAIN resp.similar_users) = recommender.model[1].n_neighbors

(* C27: over any sequence of requests on one recommender instance, the     *)
(* user-item matrix is constructed at most once, whether loading starts in *)
(* load_data or lazily in _train_model.                                    *)
C27_MatrixBuiltOnce ==
    /\ recommender.pivots <= 1
    /\ main_recommender.pivots <= 1
    /\ recommender.user_item_matrix # None => recommender.pivots = 1
    /\ main_recommender.user_item_matrix # None => main_recommender.pivots = 1

(* the query with every key turned into the integer id it denotes *)
Normalised(user_ratings) ==
    [key \in {IntKey(KeyHotel(k)) : k \in DOMAIN user_ratings} |->
        user_ratings[CHOOSE k \in DOMAIN user_ratings : KeyHotel(k) = KeyHotel(key)]]

(* C28: a rating submitted through POST /recommend (string keys) or POST   *)
(* /recommend/simple (integer keys) for a hotel that is a column of the    *)
(* matrix is placed in the query vector, so the neighbours are those of    *)
(* the query with integer ids, and the hotel is not a candidate.           *)
C28_KeysNormalised ==
    (/\ ListReturned
     /\ req.endpoint \in {"recommend", "recommend_simple"}
     /\ QuerySize >= ColdStartMin
     /\ resp.branch # "exception") =>
        /\ resp.similar_users
               \in find_similar_users(recommender,
                                      Normalised(req.user_ratings)).similar_users
        /\ \A i \in PersonalizedPositions :
               resp.body[i].hotel_id
                   \notin {KeyHotel(key) : key \in DOMAIN req.user_ratings}

(* the outcome of one call: load_data is entered at most once, and the     *)
(* call returns unless a table is missing                                  *)
EntersLoadOnce(self, outcome) ==
    /\ outcome.self.load_calls - self.load_calls \in {0, 1}
    /\ outcome.raised => files # AllFiles

(* C29: from any instance state a call to load_data,                       *)
(* _prepare_user_item_matrix or _train_model enters load_data at most once *)
(* and either returns or raises the load error.                            *)
C29_LoadEnteredAtMostOnce ==
    \A self \in {recommender, main_recommender} :
        /\ EntersLoadOnce(self, load_data(self))
        /\ EntersLoadOnce(self, prepare_user_item_matrix(self))
        /\ EntersLoadOnce(self, train_model(self))

(* the instance is in the state of one whose tables were never loaded *)
NotLoaded(self) ==
    /\ ~self.data_loaded
    /\ self.ratings_df = None
    /\ self.user_item_matrix = None
    /\ self.model = None

(* a request that reads the tables: every endpoint but a rejected POST and *)
(* a cold-start query, which goes to the popularity list directly          *)
NeedsTables(request, response) ==
    /\ response.called
    /\ request.endpoint \in {"recommend", "recommend_simple", "get_recommendations"}
           => Cardinality(DOMAIN request.user_ratings) >= ColdStartMin

ErrorStatus == {"500", "raised", "unhealthy"}

C30_State ==
    /\ \A self \in {recommender, main_recommender} :
          /\ self.data_loaded =>
                 /\ files = AllFiles
                 /\ self.hotels_df # None /\ self.users_df # None
                 /\ self.ratings_df # None
          /\ files # AllFiles =>
                 /\ NotLoaded(self)
                 /\ load_data(self).raised
                 /\ NotLoaded(load_data(self).self)
    /\ (files # AllFiles /\ phase = "responded" /\ NeedsTables(req, resp)) =>
          resp.status \in ErrorStatus

C30_Retry ==
    (files # AllFiles /\ phase' = "responded" /\ NeedsTables(req', resp')) =>
        recommender'.load_calls = recommender.load_calls + 1

(* C30: when load_data fails because a source table is missing, the error  *)
(* is raised to the caller and the instance stays not loaded: _data_loaded *)
(* is false, user_item_matrix and model are unset; _data_loaded is true    *)
(* only if all three tables were read; a later request tries the load      *)
(* again.                                                                  *)
C30_FailedLoadLeavesNotLoaded == []C30_State /\ [][C30_Retry]_vars

(* a second request has tried the load again and failed again *)
C30_Witness ==
    /\ files # AllFiles
    /\ recommender.load_calls >= 2
    /\ NotLoaded(recommender)
    /\ phase = "responded" /\ resp.status \in ErrorStatus

============================================================================
